---- MODULE Spec2Model ----
(***************************************************************************)
(* A model of hyperspace/metrics/src/handler.rs: two MetricsHandler        *)
(* instances, one per relay loop of a chain pair, their timestamp stores,  *)
(* the height gate of handle_events, the linkage of the two handlers and   *)
(* the undelivered estimator of handle_messages.                           *)
(*                                                                         *)
(* Each handler is driven by its own relay loop, so the two handlers       *)
(* interleave.  handle_events is modelled at the granularity of its loop:  *)
(* BeginEvents is lines 84-85, one action per match arm is one iteration   *)
(* of the loop of lines 86-161 (the element of `events` the iteration      *)
(* reads is drawn when the loop reaches it and recorded in batch), and     *)
(* EndEvents is lines 162-163.  A batch is therefore any finite sequence   *)
(* of events.                                                              *)
(***************************************************************************)
EXTENDS Integers, Sequences, FiniteSets, TLC

\* ------------------------------------------------------------------ bounds
MaxEvents == 2      \* events handed to handler B at the height gate
MaxCorr == 1        \* events handed to each handler when correlating
MaxHeight == 2      \* revision heights are 1..MaxHeight
MaxTime == 2        \* the clock stops after MaxTime ticks
MaxMsgs == 2        \* messages handed to handler A by the estimator
MaxConfirms == 2    \* events handed to handler B while A estimates
MaxReplays == 1     \* calls of handle_events that replay the slice of the last call
MaxDup == 2         \* events handed to handler B when confirmations repeat
TicksPerMilli == 2  \* clock ticks in one millisecond
MaxCosts == 1       \* calls of handle_transaction_costs
MaxCostMsgs == 2    \* messages in a batch handed to handle_transaction_costs
MaxLen == 2         \* bytes in a message's value
MaxWeight == 2      \* the batch weights are 0..MaxWeight
MaxLinkEvents == 1  \* events handed to each of A and B among three handlers
MaxLockEvents == 1  \* events handed to each handler when the locks are followed

\* ------------------------------------------------------------------ values
Handlers == {"A", "B"}
\* The handlers constructed: the pair above, and a third one beside it.
Instances == Handlers \cup {"C"}
Sequence == {1, 2}
Heights == 1..MaxHeight

NoTime == -1
NoRef == [owner |-> "none", kind |-> "none"]
NoPacket == [sequence |-> 0, source_channel |-> "none", destination_channel |-> "none",
             destination_port |-> "none"]

StoreKinds == {"packet", "ack", "timeout"}

Packets == {[sequence |-> s, source_channel |-> "channel-1",
             destination_channel |-> "channel-0", destination_port |-> "transfer"] :
            s \in Sequence}

\* PacketId and From<Packet>: the identity keeps three of the packet's fields.
PacketIdFrom(packet) ==
    [sequence |-> packet.sequence,
     destination_channel |-> packet.destination_channel,
     destination_port |-> packet.destination_port]

PacketIds == {PacketIdFrom(p) : p \in Packets}

PacketKinds == {"SendPacket", "ReceivePacket", "WriteAcknowledgement",
                "AcknowledgePacket", "TimeoutPacket", "TimeoutOnClosePacket"}

\* The IbcEvents handle_events is handed: the six packet events and
\* UpdateClient carry a height; every other event is "Other".
EventsOf(kinds, seqs) ==
    [kind : kinds \cap PacketKinds, height : Heights,
     packet : {p \in Packets : p.sequence \in seqs}]
    \cup [kind : kinds \cap {"UpdateClient"}, height : Heights, packet : {NoPacket}]
    \cup [kind : kinds \cap {"Other"}, height : {0}, packet : {NoPacket}]

EventKinds == PacketKinds \cup {"UpdateClient", "Other"}
IbcEvent == EventsOf(EventKinds, Sequence)

\* The matches! of lines 88-97.
HasHeight(kind) == kind \in PacketKinds \cup {"UpdateClient"}

\* The type_url of an outbound message, and the messages handlers are handed.
MsgAcknowledgement == "/ibc.core.channel.v1.MsgAcknowledgement"
MsgRecvPacket == "/ibc.core.channel.v1.MsgRecvPacket"
MsgTimeout == "/ibc.core.channel.v1.MsgTimeout"
MsgTimeoutOnClose == "/ibc.core.channel.v1.MsgTimeoutOnClose"
MsgUpdateClient == "/ibc.core.client.v1.MsgUpdateClient"
TypeUrls == {MsgAcknowledgement, MsgRecvPacket, MsgTimeout, MsgTimeoutOnClose,
             MsgUpdateClient}
AnyOf(urls, lens) == [type_url : urls, len : lens]

CounterNames == {"received_send", "received_receive", "received_acknowledge",
                 "received_timeouts", "sent_acknowledgments", "sent_packets",
                 "sent_timeout_packets"}
GaugeNames == {"undelivered_acknowledgements", "undelivered_packets"}
HistNames == {"sent_packet_time", "sent_acknowledgment_time",
              "sent_timeout_packet_time", "sent_update_client_time",
              "gas_cost_for_sent_tx_bundle", "transaction_length_for_sent_tx_bundle"}

\* The events that add to a "number of received" counter, and the counter.
CountedKinds == {"SendPacket", "ReceivePacket", "AcknowledgePacket", "TimeoutPacket",
                 "TimeoutOnClosePacket"}
CounterOf(kind) == IF kind = "SendPacket" THEN "received_send"
                   ELSE IF kind = "ReceivePacket" THEN "received_receive"
                   ELSE IF kind = "AcknowledgePacket" THEN "received_acknowledge"
                   ELSE "received_timeouts"

\* ------------------------------------------------------------------ state
VARIABLES
    store,        \* store[h][k]: handler h's own PacketMap k, PacketId -> Instant
    lastUpdate,   \* last_update_client_time
    cp,           \* cp[h][k]: counterparty_last_sent_*_time, a store or NoRef
    cpMetrics,    \* the handler whose counters h's metrics read, or "none"
    watermark,    \* metrics.latest_processed_height
    counter,      \* metrics counters
    gauge,        \* metrics gauges
    hist,         \* metrics histograms: the samples observed, in order
    warnings,     \* log::warn! calls made
    now,          \* the clock Instant::now() reads, in ticks
    pc,           \* where each handler's relay loop is
    W0,           \* handle_events' latest_processed_height
    newH,         \* handle_events' new_latest_processed_height
    batch,        \* the elements of the current (or last) call's slice read so far
    replay,       \* the rest of the slice, when the call is handed an earlier slice again
    sent,         \* the elements of the current (or last) call's message slice read so far
    local,        \* handle_messages' read of the local counter
    remote,       \* handle_messages' last read of each counterparty counter
    result,       \* how the last call of the handler ended
    quota,        \* events the handler can still be handed
    mquota,       \* messages the handler can still be handed
    replays,      \* replayed calls so far
    links,        \* the pairs of handlers link_with_counterparty was called with
    weight,       \* handle_transaction_costs' batch_weight
    held,         \* the store locks each handler holds
    tally         \* tally[h][c]: the inputs handed to h so far that counter c is to count

vars == <<store, lastUpdate, cp, cpMetrics, watermark, counter, gauge, hist,
          warnings, now, pc, W0, newH, batch, replay, sent, local, remote, result,
          quota, mquota, replays, links, weight, held, tally>>

\* MetricsHandler::new, for every handler.
New ==
    /\ store = [h \in Instances |-> [k \in StoreKinds |-> [id \in PacketIds |-> NoTime]]]
    /\ lastUpdate = [h \in Instances |-> NoTime]
    /\ cp = [h \in Instances |-> [k \in StoreKinds |-> NoRef]]
    /\ cpMetrics = [h \in Instances |-> "none"]
    /\ watermark = [h \in Instances |-> 0]
    /\ counter = [h \in Instances |-> [c \in CounterNames |-> 0]]
    /\ gauge = [h \in Instances |-> [g \in GaugeNames |-> 0]]
    /\ hist = [h \in Instances |-> [n \in HistNames |-> <<>>]]
    /\ warnings = [h \in Instances |-> 0]
    /\ now = 0
    /\ pc = [h \in Instances |-> "idle"]
    /\ W0 = [h \in Instances |-> 0]
    /\ newH = [h \in Instances |-> 0]
    /\ batch = [h \in Instances |-> <<>>]
    /\ replay = [h \in Instances |-> <<>>]
    /\ sent = [h \in Instances |-> <<>>]
    /\ local = [h \in Instances |-> 0]
    /\ remote = [h \in Instances |-> [g \in GaugeNames |-> 0]]
    /\ result = [h \in Instances |-> "none"]
    /\ replays = 0
    /\ links = {}
    /\ weight = [h \in Instances |-> 0]
    /\ held = [h \in Instances |-> {}]
    /\ tally = [h \in Instances |-> [c \in CounterNames |-> 0]]

\* ------------------------------------------------------------------ helpers
\* The elapsed time observed in the clock's unit.
AsMillisUnconverted(ticks) == ticks

\* Duration::as_millis: whole milliseconds.
AsMillis(ticks) == ticks \div TicksPerMilli

\* A gate with the comparison turned round.
IsStaleReversed(latest, current) == latest < current

\* A gate that lets the height just below the watermark through.
IsStaleOffByOne(latest, current) == latest > current + 1

\* Line 102: the event is older than the watermark read before the batch.
IsStale(latest, current) == latest > current

\* A new watermark that starts from zero instead of the one read.
StartHeightZero(latest) == 0

\* Line 85: the new watermark starts from the one read at line 84.
StartHeight(latest) == latest

\* A new watermark that follows the last height seen.
AdvanceToLast(newLatest, current) == current

\* Lines 107-109.
Advance(newLatest, current) == IF newLatest < current THEN current ELSE newLatest

\* Metrics::update_latest_processed_height: the watermark becomes the height given.
UpdateLatestProcessedHeight(h, height) == [watermark EXCEPT ![h] = height]

Inc(h, c) == [counter EXCEPT ![h][c] = @ + 1]

Observe(h, n, sample) == [hist EXCEPT ![h][n] = Append(@, sample)]

\* HashMap::insert under the store's lock.
Insert(h, k, id, t) == [store EXCEPT ![h][k][id] = t]

\* HashMap::get through a shared PacketMap.
Get(ref, id) == store[ref.owner][ref.kind][id]

\* The clock.
Tick ==
    /\ now < MaxTime
    /\ now' = now + 1
    /\ UNCHANGED <<store, lastUpdate, cp, cpMetrics, watermark, counter, gauge, hist,
                   warnings, pc, W0, newH, batch, replay, sent, local, remote, result,
                   quota, mquota,
                   replays, links, weight, held, tally>>

\* A link that crosses the sent-packet and the sent-ack stores.
LinkedStoresCrossed(owner) ==
    [k \in StoreKinds |->
        [owner |-> owner,
         kind |-> IF k = "packet" THEN "ack" ELSE IF k = "ack" THEN "packet" ELSE k]]

\* The three assignments of lines 197-201 (and of lines 203-207).
LinkedStores(owner) == [k \in StoreKinds |-> [owner |-> owner, kind |-> k]]

\* Metrics::link_with_counterparty_metrics: each side's metrics read the other's
\* counters.
LinkWithCounterpartyMetrics(self, counterparty) ==
    [cpMetrics EXCEPT ![self] = counterparty, ![counterparty] = self]

\* link_with_counterparty: both handlers are borrowed mutably, so neither is
\* inside a call.
LinkWithCounterparty(self, counterparty) ==
    /\ self # counterparty
    /\ pc[self] = "idle" /\ pc[counterparty] = "idle"
    /\ cpMetrics' = LinkWithCounterpartyMetrics(self, counterparty)
    /\ cp' = [cp EXCEPT ![self] = LinkedStores(counterparty),
                        ![counterparty] = LinkedStores(self)]
    /\ links' = links \cup {{self, counterparty}}
    /\ UNCHANGED <<store, lastUpdate, watermark, counter, gauge, hist, warnings, now,
                   pc, W0, newH, batch, replay, sent, local, remote, result, quota, mquota,
                   replays, weight, held, tally>>

\* ------------------------------------------------------------ handle_events
\* Lines 84-85.
Begin(h) ==
    /\ pc[h] = "idle"
    /\ pc' = [pc EXCEPT ![h] = "events"]
    /\ W0' = [W0 EXCEPT ![h] = watermark[h]]
    /\ newH' = [newH EXCEPT ![h] = StartHeight(watermark[h])]
    /\ batch' = [batch EXCEPT ![h] = <<>>]
    /\ result' = [result EXCEPT ![h] = "running"]
    /\ UNCHANGED <<store, lastUpdate, cp, cpMetrics, watermark, counter, gauge, hist,
                   warnings, now, sent, local, remote, quota, mquota, links, weight, held,
                   tally>>

\* handle_events is called with a slice of new events.
BeginEvents(h) ==
    /\ quota[h] > 0
    /\ Begin(h)
    /\ replay' = [replay EXCEPT ![h] = <<>>]
    /\ UNCHANGED replays

\* handle_events is called again with the slice of its last call, which returned
\* Ok: the event log is replayed.
BeginReplay(h) ==
    /\ result[h] = "ok" /\ batch[h] # <<>>
    /\ replays < MaxReplays
    /\ replays' = replays + 1
    /\ Begin(h)
    /\ replay' = [replay EXCEPT ![h] = batch[h]]

\* The loop reads its next element: a new event, or the next one of the slice
\* that is replayed.
Take(h, event) ==
    /\ pc[h] = "events"
    /\ IF replay[h] = <<>>
       THEN /\ quota[h] > 0
            /\ quota' = [quota EXCEPT ![h] = @ - 1]
       ELSE /\ Len(batch[h]) < Len(replay[h])
            /\ event = replay[h][Len(batch[h]) + 1]
            /\ UNCHANGED quota
    /\ batch' = [batch EXCEPT ![h] = Append(@, event)]
    /\ tally' = IF event.kind \in CountedKinds /\ event.height >= W0[h]
                THEN [tally EXCEPT ![h][CounterOf(event.kind)] = @ + 1]
                ELSE tally
    /\ UNCHANGED <<cp, cpMetrics, watermark, now, W0, gauge, replay, sent, local, remote,
                   mquota, replays, links, weight, held>>

\* Lines 98-104: continue.
SkipEvent(h, event) ==
    /\ Take(h, event)
    /\ HasHeight(event.kind) /\ IsStale(W0[h], event.height)
    /\ UNCHANGED <<store, lastUpdate, counter, hist, warnings, pc, newH, result>>

\* Lines 98-110 for an event that reaches the match.
Pass(h, event) ==
    /\ Take(h, event)
    /\ ~(HasHeight(event.kind) /\ IsStale(W0[h], event.height))
    /\ newH' = [newH EXCEPT ![h] =
                  IF HasHeight(event.kind) THEN Advance(@, event.height) ELSE @]

\* A lookup that unwraps the entry: a missing entry panics like a missing link.
ObserveLastPacketTimeUnwrap(h, packet, k, n) ==
    IF cp[h][k] = NoRef \/ Get(cp[h][k], PacketIdFrom(packet)) = NoTime
    THEN /\ pc' = [pc EXCEPT ![h] = "idle"]
         /\ result' = [result EXCEPT ![h] = "panic"]
         /\ UNCHANGED <<hist, warnings>>
    ELSE /\ UNCHANGED <<pc, result, warnings>>
         /\ hist' = Observe(h, n, AsMillis(now - Get(cp[h][k], PacketIdFrom(packet))))

\* A lookup that takes an unset counterparty map for a missing entry.
ObserveLastPacketTimeLenient(h, packet, k, n) ==
    /\ UNCHANGED <<pc, result>>
    /\ IF cp[h][k] # NoRef /\ Get(cp[h][k], PacketIdFrom(packet)) # NoTime
       THEN /\ hist' = Observe(h, n, AsMillis(now - Get(cp[h][k], PacketIdFrom(packet))))
            /\ UNCHANGED warnings
       ELSE /\ warnings' = [warnings EXCEPT ![h] = @ + 1]
            /\ UNCHANGED hist

\* A lookup that falls back on the handler's own store of the category.
ObserveLastPacketTimeOwn(h, packet, k, n) ==
    IF cp[h][k] = NoRef
    THEN /\ pc' = [pc EXCEPT ![h] = "idle"]
         /\ result' = [result EXCEPT ![h] = "panic"]
         /\ UNCHANGED <<hist, warnings>>
    ELSE /\ UNCHANGED <<pc, result>>
         /\ IF Get(cp[h][k], PacketIdFrom(packet)) # NoTime
            THEN /\ hist' = Observe(h, n, AsMillis(now - Get(cp[h][k], PacketIdFrom(packet))))
                 /\ UNCHANGED warnings
            ELSE IF store[h][k][PacketIdFrom(packet)] # NoTime
            THEN /\ hist' = Observe(h, n, AsMillis(now - store[h][k][PacketIdFrom(packet)]))
                 /\ UNCHANGED warnings
            ELSE /\ warnings' = [warnings EXCEPT ![h] = @ + 1]
                 /\ UNCHANGED hist

\* observe_last_packet_time, lines 227-244.  An unset counterparty map panics.
ObserveLastPacketTime(h, packet, k, n) ==
    IF cp[h][k] = NoRef
    THEN /\ pc' = [pc EXCEPT ![h] = "idle"]
         /\ result' = [result EXCEPT ![h] = "panic"]
         /\ UNCHANGED <<hist, warnings>>
    ELSE /\ UNCHANGED <<pc, result>>
         /\ IF Get(cp[h][k], PacketIdFrom(packet)) # NoTime
            THEN /\ hist' = Observe(h, n, AsMillis(now - Get(cp[h][k], PacketIdFrom(packet))))
                 /\ UNCHANGED warnings
            ELSE /\ warnings' = [warnings EXCEPT ![h] = @ + 1]
                 /\ UNCHANGED hist

\* Lines 112-116.
SendPacket(h, event) ==
    /\ event.kind = "SendPacket"
    /\ Pass(h, event)
    /\ counter' = Inc(h, "received_send")
    /\ store' = Insert(h, "packet", PacketIdFrom(event.packet), now)
    /\ UNCHANGED <<lastUpdate, hist, warnings, pc, result>>

\* A ReceivePacket arm that counts the event only when the lookup finds an entry.
ReceivePacketCountOnHit(h, event) ==
    /\ event.kind = "ReceivePacket"
    /\ Pass(h, event)
    /\ counter' = IF cp[h]["packet"] # NoRef
                     /\ Get(cp[h]["packet"], PacketIdFrom(event.packet)) # NoTime
                  THEN Inc(h, "received_receive") ELSE counter
    /\ ObserveLastPacketTime(h, event.packet, "packet", "sent_packet_time")
    /\ UNCHANGED <<store, lastUpdate>>

\* Lines 117-124.
ReceivePacket(h, event) ==
    /\ event.kind = "ReceivePacket"
    /\ Pass(h, event)
    /\ counter' = Inc(h, "received_receive")
    /\ ObserveLastPacketTime(h, event.packet, "packet", "sent_packet_time")
    /\ UNCHANGED <<store, lastUpdate>>

\* Lines 125-131.
WriteAcknowledgement(h, event) ==
    /\ event.kind = "WriteAcknowledgement"
    /\ Pass(h, event)
    /\ store' = Insert(h, "ack", PacketIdFrom(event.packet), now)
    /\ UNCHANGED <<lastUpdate, counter, hist, warnings, pc, result>>

\* Lines 132-139.
AcknowledgePacket(h, event) ==
    /\ event.kind = "AcknowledgePacket"
    /\ Pass(h, event)
    /\ counter' = Inc(h, "received_acknowledge")
    /\ ObserveLastPacketTime(h, event.packet, "ack", "sent_acknowledgment_time")
    /\ UNCHANGED <<store, lastUpdate>>

\* Lines 140-148.
TimeoutPacket(h, event) ==
    /\ event.kind \in {"TimeoutPacket", "TimeoutOnClosePacket"}
    /\ Pass(h, event)
    /\ counter' = Inc(h, "received_timeouts")
    /\ ObserveLastPacketTime(h, event.packet, "timeout", "sent_timeout_packet_time")
    /\ UNCHANGED <<store, lastUpdate>>

\* observe_delta_time, lines 247-256.
ObserveDeltaTime(h) ==
    /\ lastUpdate' = [lastUpdate EXCEPT ![h] = now]
    /\ hist' = IF lastUpdate[h] # NoTime
               THEN Observe(h, "sent_update_client_time", AsMillis(now - lastUpdate[h]))
               ELSE hist

\* A client update that does the bookkeeping call before it observes the delta.
UpdateClientHeightFirst(h, event, ok) ==
    /\ event.kind = "UpdateClient"
    /\ Pass(h, event)
    /\ IF ok
       THEN /\ ObserveDeltaTime(h)
            /\ UNCHANGED <<pc, result>>
       ELSE /\ pc' = [pc EXCEPT ![h] = "idle"]
            /\ result' = [result EXCEPT ![h] = "err"]
            /\ UNCHANGED <<lastUpdate, hist>>
    /\ UNCHANGED <<store, counter, warnings>>

\* Lines 149-158.  Metrics::update_light_client_height returns Ok or Err; on Err
\* the `?` returns from handle_events.
UpdateClient(h, event, ok) ==
    /\ event.kind = "UpdateClient"
    /\ Pass(h, event)
    /\ ObserveDeltaTime(h)
    /\ IF ok
       THEN UNCHANGED <<pc, result>>
       ELSE /\ pc' = [pc EXCEPT ![h] = "idle"]
            /\ result' = [result EXCEPT ![h] = "err"]
    /\ UNCHANGED <<store, counter, warnings>>

\* Line 159.
OtherEvent(h, event) ==
    /\ event.kind = "Other"
    /\ Pass(h, event)
    /\ UNCHANGED <<store, lastUpdate, counter, hist, warnings, pc, result>>

\* Lines 162-163, reached when the loop has read the whole slice.
EndEvents(h) ==
    /\ pc[h] = "events"
    /\ Len(batch[h]) >= Len(replay[h])
    /\ watermark' = UpdateLatestProcessedHeight(h, newH[h])
    /\ pc' = [pc EXCEPT ![h] = "idle"]
    /\ result' = [result EXCEPT ![h] = "ok"]
    /\ UNCHANGED <<store, lastUpdate, cp, cpMetrics, counter, gauge, hist, warnings,
                   now, W0, newH, batch, replay, sent, local, remote, quota, mquota,
                   replays, links, weight, held, tally>>

\* ------------------------------------------------ handle_events, lock by lock
\* The match arms again, at the granularity of the Mutex of each store: an arm
\* runs up to its lock(), waits for the Mutex, and then does its map operation
\* and drops the guard.  The Mutex of last_update_client_time is the lock
\* "update" of its handler.

\* The event the loop is at.
Current(h) == batch[h][Len(batch[h])]

\* The counterparty map and the histogram an arm hands observe_last_packet_time.
CounterpartyMapOf(kind) == IF kind = "ReceivePacket" THEN "packet"
                           ELSE IF kind = "AcknowledgePacket" THEN "ack" ELSE "timeout"
TimeMetricsOf(kind) == IF kind = "ReceivePacket" THEN "sent_packet_time"
                       ELSE IF kind = "AcknowledgePacket" THEN "sent_acknowledgment_time"
                       ELSE "sent_timeout_packet_time"

\* The Mutex the arm of the current event locks.
LockWanted(h) ==
    IF Current(h).kind = "SendPacket" THEN [owner |-> h, kind |-> "packet"]
    ELSE IF Current(h).kind = "WriteAcknowledgement" THEN [owner |-> h, kind |-> "ack"]
    ELSE IF Current(h).kind = "UpdateClient" THEN [owner |-> h, kind |-> "update"]
    ELSE cp[h][CounterpartyMapOf(Current(h).kind)]

\* The arm up to its lock(): the counter of lines 113, 118, 133 and 142, and the
\* expect of line 235.
EnterArm(h, event) ==
    /\ event.kind \in PacketKinds \cup {"UpdateClient"}
    /\ Pass(h, event)
    /\ counter' = IF event.kind \in CountedKinds
                  THEN Inc(h, CounterOf(event.kind)) ELSE counter
    /\ IF /\ event.kind \in CountedKinds \ {"SendPacket"}
          /\ cp[h][CounterpartyMapOf(event.kind)] = NoRef
       THEN /\ pc' = [pc EXCEPT ![h] = "idle"]
            /\ result' = [result EXCEPT ![h] = "panic"]
       ELSE /\ pc' = [pc EXCEPT ![h] = "lock"]
            /\ UNCHANGED result
    /\ UNCHANGED <<store, lastUpdate, hist, warnings>>

\* Mutex::lock, lines 115, 128, 150 and 236: it returns when no guard of the
\* Mutex is alive.
Lock(h) ==
    /\ pc[h] = "lock"
    /\ \A g \in Handlers : LockWanted(h) \notin held[g]
    /\ held' = [held EXCEPT ![h] = @ \cup {LockWanted(h)}]
    /\ pc' = [pc EXCEPT ![h] = "locked"]
    /\ UNCHANGED <<store, lastUpdate, cp, cpMetrics, watermark, counter, gauge, hist,
                   warnings, now, W0, newH, batch, replay, sent, local, remote, result,
                   quota, mquota, replays, links, weight, tally>>

\* A guard that is never dropped.
ReleaseNever(h) == held[h]

\* The drop of the guard: at the end of the statement (lines 115, 130), at line
\* 152, or at the return of observe_last_packet_time (line 244).
Release(h) == held[h] \ {LockWanted(h)}

\* What the arm does while it holds the guard, and the drop of the guard.
Unlock(h) ==
    /\ pc[h] = "locked"
    /\ IF Current(h).kind \in {"SendPacket", "WriteAcknowledgement"}
       THEN /\ store' = Insert(h, LockWanted(h).kind, PacketIdFrom(Current(h).packet), now)
            /\ pc' = [pc EXCEPT ![h] = "events"]
            /\ UNCHANGED <<lastUpdate, hist, warnings>>
       ELSE IF Current(h).kind = "UpdateClient"
       THEN /\ ObserveDeltaTime(h)
            /\ pc' = [pc EXCEPT ![h] = "height"]
            /\ UNCHANGED <<store, warnings>>
       ELSE /\ IF Get(LockWanted(h), PacketIdFrom(Current(h).packet)) # NoTime
               THEN /\ hist' = Observe(h, TimeMetricsOf(Current(h).kind),
                                       AsMillis(now - Get(LockWanted(h),
                                                          PacketIdFrom(Current(h).packet))))
                    /\ UNCHANGED warnings
               ELSE /\ warnings' = [warnings EXCEPT ![h] = @ + 1]
                    /\ UNCHANGED hist
            /\ pc' = [pc EXCEPT ![h] = "events"]
            /\ UNCHANGED <<store, lastUpdate>>
    /\ held' = [held EXCEPT ![h] = Release(h)]
    /\ UNCHANGED <<cp, cpMetrics, watermark, counter, gauge, now, W0, newH, batch, replay,
                   sent, local, remote, result, quota, mquota, replays, links, weight,
                   tally>>

\* Lines 153-157: Metrics::update_light_client_height returns Ok or Err, after the
\* guard is dropped.
UpdateLightClientHeight(h, ok) ==
    /\ pc[h] = "height"
    /\ IF ok
       THEN /\ pc' = [pc EXCEPT ![h] = "events"]
            /\ UNCHANGED result
       ELSE /\ pc' = [pc EXCEPT ![h] = "idle"]
            /\ result' = [result EXCEPT ![h] = "err"]
    /\ UNCHANGED <<store, lastUpdate, cp, cpMetrics, watermark, counter, gauge, hist,
                   warnings, now, W0, newH, batch, replay, sent, local, remote, quota,
                   mquota, replays, links, weight, held, tally>>

\* ---------------------------------------------------------- handle_messages
\* handle_messages is modelled at the granularity of its reads of the shared
\* counters: the match arm first touches the local counter, then reads the
\* counterparty's, which the counterparty's relay loop may have incremented in
\* between.

\* The subtraction without the clamp.
PlainSub(a, b) == a - b

\* u64::saturating_sub, lines 174 and 183.
SaturatingSub(a, b) == IF a >= b THEN a - b ELSE 0

\* Metrics::counterparty_number_of_received_acknowledgments and
\* Metrics::counterparty_number_of_received_packets: the counters of the linked
\* counterparty.
CounterpartyNumberOfReceivedAcknowledgments(h) ==
    counter[cpMetrics[h]]["received_acknowledge"]
CounterpartyNumberOfReceivedPackets(h) == counter[cpMetrics[h]]["received_receive"]

BeginMessages(h) ==
    /\ pc[h] = "idle"
    /\ mquota[h] > 0
    /\ pc' = [pc EXCEPT ![h] = "messages"]
    /\ sent' = [sent EXCEPT ![h] = <<>>]
    /\ result' = [result EXCEPT ![h] = "running"]
    /\ UNCHANGED <<store, lastUpdate, cp, cpMetrics, watermark, counter, gauge, hist,
                   warnings, now, W0, newH, batch, replay, local, remote, quota, mquota,
                   replays, links, weight, held, tally>>

\* The loop of line 167 reads its next element.
TakeMessage(h, message) ==
    /\ pc[h] = "messages"
    /\ mquota[h] > 0
    /\ mquota' = [mquota EXCEPT ![h] = @ - 1]
    /\ sent' = [sent EXCEPT ![h] = Append(@, message)]
    /\ UNCHANGED <<store, lastUpdate, cp, cpMetrics, watermark, hist, warnings, now,
                   W0, newH, batch, replay, quota, replays, links, weight, held, tally>>

\* The local count read before the increment of line 170.
SentAcknowledgmentsGetEarly(h) == counter[h]["sent_acknowledgments"]

\* Line 174: the local count is read after the increment of line 170.
SentAcknowledgmentsGet(h) == counter'[h]["sent_acknowledgments"]

\* Lines 169-174: the increment and the read of the local counter.
Acknowledgement(h, message) ==
    /\ message.type_url = MsgAcknowledgement
    /\ TakeMessage(h, message)
    /\ counter' = Inc(h, "sent_acknowledgments")
    /\ local' = [local EXCEPT ![h] = SentAcknowledgmentsGet(h)]
    /\ pc' = [pc EXCEPT ![h] = "ack_set"]
    /\ UNCHANGED <<gauge, remote, result>>

\* Lines 175-179: the read of the counterparty's counter and the gauge's set.  An
\* unlinked handler has no counterparty counter: the accessor panics.
SetUndeliveredAcknowledgements(h) ==
    /\ pc[h] = "ack_set"
    /\ IF cpMetrics[h] = "none"
       THEN /\ pc' = [pc EXCEPT ![h] = "idle"]
            /\ result' = [result EXCEPT ![h] = "panic"]
            /\ UNCHANGED <<gauge, remote>>
       ELSE /\ remote' = [remote EXCEPT ![h]["undelivered_acknowledgements"] =
                             CounterpartyNumberOfReceivedAcknowledgments(h)]
            /\ gauge' = [gauge EXCEPT ![h]["undelivered_acknowledgements"] =
                            SaturatingSub(local[h],
                                          CounterpartyNumberOfReceivedAcknowledgments(h))]
            /\ pc' = [pc EXCEPT ![h] = "messages"]
            /\ UNCHANGED result
    /\ UNCHANGED <<store, lastUpdate, cp, cpMetrics, watermark, counter, hist, warnings,
                   now, W0, newH, batch, replay, sent, local, quota, mquota, replays,
                   links, weight, held, tally>>

\* The local count as it is after the increment of line 187.
SentPacketsGetLate(h) == counter[h]["sent_packets"] + 1

\* Line 183: the local count is read before the increment of line 187.
SentPacketsGet(h) == counter[h]["sent_packets"]

\* Line 183: the read of the local counter.
RecvPacket(h, message) ==
    /\ message.type_url = MsgRecvPacket
    /\ TakeMessage(h, message)
    /\ local' = [local EXCEPT ![h] = SentPacketsGet(h)]
    /\ pc' = [pc EXCEPT ![h] = "recv_set"]
    /\ UNCHANGED <<counter, gauge, remote, result>>

\* Lines 182-187: the read of the counterparty's counter, the gauge's set and the
\* increment.
SetUndeliveredPackets(h) ==
    /\ pc[h] = "recv_set"
    /\ IF cpMetrics[h] = "none"
       THEN /\ pc' = [pc EXCEPT ![h] = "idle"]
            /\ result' = [result EXCEPT ![h] = "panic"]
            /\ UNCHANGED <<gauge, remote, counter>>
       ELSE /\ remote' = [remote EXCEPT ![h]["undelivered_packets"] =
                             CounterpartyNumberOfReceivedPackets(h)]
            /\ gauge' = [gauge EXCEPT ![h]["undelivered_packets"] =
                            SaturatingSub(local[h], CounterpartyNumberOfReceivedPackets(h))]
            /\ counter' = Inc(h, "sent_packets")
            /\ pc' = [pc EXCEPT ![h] = "messages"]
            /\ UNCHANGED result
    /\ UNCHANGED <<store, lastUpdate, cp, cpMetrics, watermark, hist, warnings,
                   now, W0, newH, batch, replay, sent, local, quota, mquota, replays,
                   links, weight, held, tally>>

\* Line 189.
IgnoredMessage(h, message) ==
    /\ message.type_url \notin {MsgAcknowledgement, MsgRecvPacket}
    /\ TakeMessage(h, message)
    /\ UNCHANGED <<counter, gauge, local, remote, pc, result>>

\* Line 192: the loop has read the whole slice.
EndMessages(h) ==
    /\ pc[h] = "messages"
    /\ pc' = [pc EXCEPT ![h] = "idle"]
    /\ result' = [result EXCEPT ![h] = "ok"]
    /\ UNCHANGED <<store, lastUpdate, cp, cpMetrics, watermark, counter, gauge, hist,
                   warnings, now, W0, newH, batch, replay, sent, local, remote, quota,
                   mquota, replays, links, weight, held, tally>>

\* ---------------------------------------------------------- handle_timeouts
\* A match that takes only the timeout tag.
IsTimeoutUrlOnly(type_url) == type_url = MsgTimeout

\* The pattern of line 213.
IsTimeoutUrl(type_url) == type_url \in {MsgTimeout, MsgTimeoutOnClose}

BeginTimeouts(h) ==
    /\ pc[h] = "idle"
    /\ mquota[h] > 0
    /\ pc' = [pc EXCEPT ![h] = "timeouts"]
    /\ sent' = [sent EXCEPT ![h] = <<>>]
    /\ result' = [result EXCEPT ![h] = "running"]
    /\ UNCHANGED <<store, lastUpdate, cp, cpMetrics, watermark, counter, gauge, hist,
                   warnings, now, W0, newH, batch, replay, local, remote, quota, mquota,
                   replays, links, weight, held, tally>>

\* The loop of line 211 reads its next element.
TakeTimeout(h, message) ==
    /\ pc[h] = "timeouts"
    /\ mquota[h] > 0
    /\ mquota' = [mquota EXCEPT ![h] = @ - 1]
    /\ sent' = [sent EXCEPT ![h] = Append(@, message)]
    /\ tally' = IF message.type_url \in {MsgTimeout, MsgTimeoutOnClose}
                THEN [tally EXCEPT ![h]["sent_timeout_packets"] = @ + 1]
                ELSE tally
    /\ UNCHANGED <<lastUpdate, cp, cpMetrics, watermark, gauge, hist, warnings,
                   now, pc, W0, newH, batch, replay, local, remote, result, quota,
                   replays, links, weight, held>>

\* A timeout arm that also records the instant in the sent-timeout store.
TimeoutMessageRecorded(h, message) ==
    /\ IsTimeoutUrl(message.type_url)
    /\ TakeTimeout(h, message)
    /\ counter' = Inc(h, "sent_timeout_packets")
    /\ store' = Insert(h, "timeout", CHOOSE id \in PacketIds : id.sequence = 1, now)

\* Lines 213-215.
TimeoutMessage(h, message) ==
    /\ IsTimeoutUrl(message.type_url)
    /\ TakeTimeout(h, message)
    /\ counter' = Inc(h, "sent_timeout_packets")
    /\ UNCHANGED store

\* Line 216.
IgnoredTimeout(h, message) ==
    /\ ~IsTimeoutUrl(message.type_url)
    /\ TakeTimeout(h, message)
    /\ UNCHANGED <<counter, store>>

\* Line 219: the loop has read the whole slice.
EndTimeouts(h) ==
    /\ pc[h] = "timeouts"
    /\ pc' = [pc EXCEPT ![h] = "idle"]
    /\ result' = [result EXCEPT ![h] = "ok"]
    /\ UNCHANGED <<store, lastUpdate, cp, cpMetrics, watermark, counter, gauge, hist,
                   warnings, now, W0, newH, batch, replay, sent, local, remote, quota,
                   mquota, replays, links, weight, held, tally>>

\* ------------------------------------------------- handle_transaction_costs
\* The number of messages instead of their bytes.
BatchCount(messages) == Len(messages)

\* Line 222: the sum of the lengths of the messages' values.
RECURSIVE BatchSize(_)
BatchSize(messages) ==
    IF messages = <<>> THEN 0 ELSE Head(messages).len + BatchSize(Tail(messages))

\* The slices of at most n messages.
BatchesOf(messages, n) == UNION {[1..k -> messages] : k \in 0..n}

\* Lines 221-225.  The function awaits nothing: it is one step.
HandleTransactionCosts(h, batch_weight, messages) ==
    /\ pc[h] = "idle"
    /\ mquota[h] > 0 /\ Len(messages) <= mquota[h]
    /\ Len(hist[h]["gas_cost_for_sent_tx_bundle"]) < MaxCosts
    /\ weight' = [weight EXCEPT ![h] = batch_weight]
    /\ sent' = [sent EXCEPT ![h] = messages]
    /\ hist' = [hist EXCEPT
                  ![h]["gas_cost_for_sent_tx_bundle"] = Append(@, batch_weight),
                  ![h]["transaction_length_for_sent_tx_bundle"] =
                      Append(@, BatchSize(messages))]
    /\ result' = [result EXCEPT ![h] = "ok"]
    /\ UNCHANGED <<store, lastUpdate, cp, cpMetrics, watermark, counter, gauge, warnings,
                   now, pc, W0, newH, batch, replay, local, remote, quota, mquota,
                   replays, links, held, tally>>

\* ------------------------------------------------------------ the relayer
\* The height gate: handler B follows every event of its chain, handler A is
\* constructed and linked but handed nothing.  No clock: every Instant is the same.
Feed == EventsOf(EventKinds, {1})

Init ==
    /\ New
    /\ quota = [h \in Handlers |-> IF h = "B" THEN MaxEvents ELSE 0]
    /\ mquota = [h \in Handlers |-> 0]

Next ==
    \/ \E a, b \in Handlers : LinkWithCounterparty(a, b)
    \/ \E h \in Handlers :
          \/ BeginEvents(h)
          \/ BeginReplay(h)
          \/ EndEvents(h)
          \/ \E event \in Feed :
                \/ SkipEvent(h, event)
                \/ SendPacket(h, event)
                \/ ReceivePacket(h, event)
                \/ WriteAcknowledgement(h, event)
                \/ AcknowledgePacket(h, event)
                \/ TimeoutPacket(h, event)
                \/ \E ok \in BOOLEAN : UpdateClient(h, event, ok)
                \/ OtherEvent(h, event)

Spec == Init /\ [][Next]_vars

\* Correlation: packets 1 and 2 flow from A's chain to B's chain while the clock
\* runs.  A's chain emits SendPacket and AcknowledgePacket, B's chain emits
\* ReceivePacket and WriteAcknowledgement, all at height 1.
FlowKinds(h) == IF h = "A" THEN {"SendPacket", "AcknowledgePacket"}
                ELSE {"ReceivePacket", "WriteAcknowledgement"}
FlowFeed(h) == {e \in EventsOf(FlowKinds(h), Sequence) : e.height = 1}

InitCorr ==
    /\ New
    /\ quota = [h \in Handlers |-> MaxCorr]
    /\ mquota = [h \in Handlers |-> 0]

NextCorr ==
    \/ Tick
    \/ \E a, b \in Handlers : LinkWithCounterparty(a, b)
    \/ \E h \in Handlers :
          \/ BeginEvents(h)
          \/ EndEvents(h)
          \/ \E event \in FlowFeed(h) :
                \/ SendPacket(h, event)
                \/ ReceivePacket(h, event)
                \/ WriteAcknowledgement(h, event)
                \/ AcknowledgePacket(h, event)

SpecCorr == InitCorr /\ [][NextCorr]_vars


\* The undelivered estimator: handler A is handed outbound messages while handler
\* B is handed the confirmation events that drive the counters A reads.
ConfirmFeed == {e \in EventsOf({"ReceivePacket", "AcknowledgePacket"}, {1}) : e.height = 1}
MessageFeed == AnyOf(TypeUrls, {1})

InitMsg ==
    /\ New
    /\ quota = [h \in Handlers |-> IF h = "B" THEN MaxConfirms ELSE 0]
    /\ mquota = [h \in Handlers |-> IF h = "A" THEN MaxMsgs ELSE 0]

NextMsg ==
    \/ \E a, b \in Handlers : LinkWithCounterparty(a, b)
    \/ \E h \in Handlers :
          \/ BeginEvents(h)
          \/ EndEvents(h)
          \/ \E event \in ConfirmFeed :
                \/ ReceivePacket(h, event)
                \/ AcknowledgePacket(h, event)
          \/ BeginMessages(h)
          \/ EndMessages(h)
          \/ SetUndeliveredAcknowledgements(h)
          \/ SetUndeliveredPackets(h)
          \/ \E message \in MessageFeed :
                \/ Acknowledgement(h, message)
                \/ RecvPacket(h, message)
                \/ IgnoredMessage(h, message)

SpecMsg == InitMsg /\ [][NextMsg]_vars

\* Repeated confirmations: as the correlation, with B handed up to MaxDup events.
InitDup ==
    /\ New
    /\ quota = [h \in Handlers |-> IF h = "B" THEN MaxDup ELSE MaxCorr]
    /\ mquota = [h \in Handlers |-> 0]

SpecDup == InitDup /\ [][NextCorr]_vars

\* The outbound side: handler A is handed the messages of its relay loop through
\* handle_messages and through handle_timeouts; handler B is constructed and
\* linked but handed nothing.
InitOut ==
    /\ New
    /\ quota = [h \in Handlers |-> 0]
    /\ mquota = [h \in Handlers |-> IF h = "A" THEN MaxMsgs ELSE 0]

NextOut ==
    \/ \E a, b \in Handlers : LinkWithCounterparty(a, b)
    \/ \E h \in Handlers :
          \/ BeginMessages(h)
          \/ EndMessages(h)
          \/ SetUndeliveredAcknowledgements(h)
          \/ SetUndeliveredPackets(h)
          \/ BeginTimeouts(h)
          \/ EndTimeouts(h)
          \/ \E message \in MessageFeed :
                \/ Acknowledgement(h, message)
                \/ RecvPacket(h, message)
                \/ IgnoredMessage(h, message)
                \/ TimeoutMessage(h, message)
                \/ IgnoredTimeout(h, message)

SpecOut == InitOut /\ [][NextOut]_vars

\* Transaction costs: handler A is handed batches of at most MaxCostMsgs messages
\* of two tags, with values of one byte or of MaxLen bytes, and a weight.
CostFeed == AnyOf({MsgRecvPacket, MsgUpdateClient}, {1, MaxLen})
CostBatches == BatchesOf(CostFeed, MaxCostMsgs)
Weights == 0..MaxWeight

InitCost ==
    /\ New
    /\ quota = [h \in Handlers |-> 0]
    /\ mquota = [h \in Handlers |-> IF h = "A" THEN MaxCostMsgs ELSE 0]

NextCost ==
    \/ \E a, b \in Handlers : LinkWithCounterparty(a, b)
    \/ \E h \in Handlers : \E batch_weight \in Weights :
          \E messages \in CostBatches :
             HandleTransactionCosts(h, batch_weight, messages)

SpecCost == InitCost /\ [][NextCost]_vars

\* Three handlers: the orchestrator links each pair of them at most once, and A
\* and B are handed the events of a packet sent on A's chain.
LinkFeed == {e \in EventsOf({"SendPacket", "ReceivePacket"}, {1}) : e.height = 1}

LinkOnce(self, counterparty) ==
    /\ {self, counterparty} \notin links
    /\ LinkWithCounterparty(self, counterparty)

InitLink ==
    /\ New
    /\ quota = [h \in Instances |-> IF h \in Handlers THEN MaxLinkEvents ELSE 0]
    /\ mquota = [h \in Instances |-> 0]

NextLink ==
    \/ \E self, counterparty \in Instances : LinkOnce(self, counterparty)
    \/ \E h \in Instances :
          \/ BeginEvents(h)
          \/ EndEvents(h)
          \/ \E event \in LinkFeed :
                \/ SendPacket(h, event)
                \/ ReceivePacket(h, event)

SpecLink == InitLink /\ [][NextLink]_vars

\* The categories side by side: A's chain emits what A records, B's chain emits a
\* send of its own and the three kinds of confirmation, all for packet 1 at
\* height 1.
IsoKinds(h) == IF h = "A" THEN {"SendPacket", "WriteAcknowledgement"}
               ELSE {"SendPacket", "ReceivePacket", "AcknowledgePacket", "TimeoutPacket"}
IsoFeed(h) == {e \in EventsOf(IsoKinds(h), {1}) : e.height = 1}

NextIso ==
    \/ \E a, b \in Handlers : LinkWithCounterparty(a, b)
    \/ \E h \in Handlers :
          \/ BeginEvents(h)
          \/ EndEvents(h)
          \/ \E event \in IsoFeed(h) :
                \/ SendPacket(h, event)
                \/ ReceivePacket(h, event)
                \/ WriteAcknowledgement(h, event)
                \/ AcknowledgePacket(h, event)
                \/ TimeoutPacket(h, event)

SpecIso == InitDup /\ [][NextIso]_vars

\* The locks: the two relay loops run side by side on the events of packet 1 and
\* on client updates, and each loop that is inside a call is scheduled again.
LockKinds(h) == FlowKinds(h) \cup {"UpdateClient"}
LockFeed(h) == {e \in EventsOf(LockKinds(h), {1}) : e.height = 1}

InitLock ==
    /\ New
    /\ quota = [h \in Handlers |-> MaxLockEvents]
    /\ mquota = [h \in Handlers |-> 0]

\* A step of the call handler h is inside.
LoopStep(h) ==
    \/ \E event \in LockFeed(h) : EnterArm(h, event)
    \/ Lock(h)
    \/ Unlock(h)
    \/ \E ok \in BOOLEAN : UpdateLightClientHeight(h, ok)
    \/ EndEvents(h)

NextLock ==
    \/ \E a, b \in Handlers : LinkWithCounterparty(a, b)
    \/ \E h \in Handlers : BeginEvents(h) \/ LoopStep(h)

SpecLock == InitLock /\ [][NextLock]_vars /\ \A h \in Handlers : WF_vars(LoopStep(h))

\* Timeouts: handler A is handed the timeout messages its relay loop sends and
\* the events of what its chain records; handler B is handed the timeout events
\* of its chain.
TimeoutFeed == AnyOf({MsgTimeout, MsgTimeoutOnClose, MsgRecvPacket}, {1})
TimeoutKinds(h) == IF h = "A" THEN {"SendPacket", "WriteAcknowledgement"}
                   ELSE {"TimeoutPacket", "TimeoutOnClosePacket"}
TimeoutEvents(h) == {e \in EventsOf(TimeoutKinds(h), {1}) : e.height = 1}

InitTimeout ==
    /\ New
    /\ quota = [h \in Handlers |-> IF h = "B" THEN MaxConfirms ELSE MaxCorr]
    /\ mquota = [h \in Handlers |-> IF h = "A" THEN MaxMsgs ELSE 0]

NextTimeout ==
    \/ \E a, b \in Handlers : LinkWithCounterparty(a, b)
    \/ \E h \in Handlers :
          \/ BeginEvents(h)
          \/ EndEvents(h)
          \/ \E event \in TimeoutEvents(h) :
                \/ SendPacket(h, event)
                \/ WriteAcknowledgement(h, event)
                \/ TimeoutPacket(h, event)
          \/ BeginTimeouts(h)
          \/ EndTimeouts(h)
          \/ \E message \in TimeoutFeed :
                \/ TimeoutMessage(h, message)
                \/ IgnoredTimeout(h, message)

SpecTimeout == InitTimeout /\ [][NextTimeout]_vars

\* ------------------------------------------------------------------ claims
Other(h) == CHOOSE x \in Handlers : x # h

\* This step is one iteration of handler h's loop.
Took(h) == pc[h] = "events" /\ Len(batch'[h]) = Len(batch[h]) + 1
Taken(h) == batch'[h][Len(batch'[h])]

ConfirmKinds == {"ReceivePacket", "AcknowledgePacket", "TimeoutPacket",
                 "TimeoutOnClosePacket"}
StoreOf(kind) == IF kind = "ReceivePacket" THEN "packet"
                 ELSE IF kind = "AcknowledgePacket" THEN "ack" ELSE "timeout"
HistOf(kind) == IF kind = "ReceivePacket" THEN "sent_packet_time"
                ELSE IF kind = "AcknowledgePacket" THEN "sent_acknowledgment_time"
                ELSE "sent_timeout_packet_time"
LatencyHists == {"sent_packet_time", "sent_acknowledgment_time",
                 "sent_timeout_packet_time"}
Linked(h) == \A k \in StoreKinds : cp[h][k] # NoRef
Unlinked(h) == \A k \in StoreKinds : cp[h][k] = NoRef

\* C1: an event that carries a height strictly below the watermark W0 read at
\* the start of the batch has no effect: no counter, store, last-update instant,
\* histogram or warning changes, the batch goes on, and the new watermark is not
\* influenced.
C1_StaleEventHasNoEffect ==
    [][\A h \in Handlers :
          (Took(h) /\ HasHeight(Taken(h).kind) /\ Taken(h).height < W0[h])
          => /\ UNCHANGED <<counter, store, lastUpdate, hist, warnings, gauge,
                            watermark, newH, cp>>
             /\ pc'[h] = "events" /\ result'[h] = result[h]]_vars

\* A linked handler whose watermark is above 1 has skipped a ReceivePacket event.
C1_Witness ==
    \E h \in Handlers : \E i \in 1..Len(batch[h]) :
        /\ Linked(h)
        /\ batch[h][i].kind = "ReceivePacket"
        /\ batch[h][i].height < W0[h]
        /\ counter[h]["received_receive"] = 0 /\ warnings[h] = 0

\* C2: the watermark of a handler never decreases, whatever the batches hold.
C2_WatermarkNonDecreasing ==
    [][\A h \in Handlers : watermark'[h] >= watermark[h]]_vars

\* A batch that held only stale events has returned Ok and left the watermark.
C2_Witness ==
    \E h \in Handlers :
        /\ result[h] = "ok" /\ batch[h] # <<>>
        /\ \A i \in 1..Len(batch[h]) :
              HasHeight(batch[h][i].kind) /\ batch[h][i].height < W0[h]
        /\ watermark[h] = W0[h] /\ W0[h] > 0

\* The two parts of C3: what a send records, and what the confirmation observes.
C3_Recorded ==
    \A h \in Handlers : \A i \in 1..Len(batch[h]) :
        /\ batch[h][i].kind = "SendPacket"
           => store[h]["packet"][PacketIdFrom(batch[h][i].packet)] \in 0..now
        /\ batch[h][i].kind = "WriteAcknowledgement"
           => store[h]["ack"][PacketIdFrom(batch[h][i].packet)] \in 0..now

C3_Step ==
    \A h \in Handlers :
        (/\ Took(h) /\ Linked(h)
         /\ Taken(h).kind \in {"ReceivePacket", "AcknowledgePacket"}
         /\ store[Other(h)][StoreOf(Taken(h).kind)][PacketIdFrom(Taken(h).packet)] # NoTime)
        => /\ hist'[h][HistOf(Taken(h).kind)] =
                Append(hist[h][HistOf(Taken(h).kind)],
                       (now - store[Other(h)][StoreOf(Taken(h).kind)]
                                   [PacketIdFrom(Taken(h).packet)]) \div TicksPerMilli)
           /\ \A n \in HistNames \ {HistOf(Taken(h).kind)} : hist'[h][n] = hist[h][n]
           /\ hist'[Other(h)] = hist[Other(h)]
           /\ pc'[h] = "events"

\* C3: on linked handlers, once a handler has processed a SendPacket (a
\* WriteAcknowledgement) its store holds the instant of that call, and when the
\* counterparty then processes the ReceivePacket (AcknowledgePacket) with the same
\* packet identity exactly one sample, the whole milliseconds elapsed since that
\* instant, is appended to its sent_packet_time (sent_acknowledgment_time)
\* histogram and to no other.
C3_MatchingConfirmationObservesOnce == []C3_Recorded /\ [][C3_Step]_vars

\* B has observed one sample of one millisecond for a packet A sent two ticks ago.
C3_Witness ==
    /\ hist["B"]["sent_packet_time"] = <<1>>
    /\ \E id \in PacketIds : store["A"]["packet"][id] = now - TicksPerMilli

\* C4: on a linked handler a confirmation event that passes the height gate and
\* whose packet identity has no entry in the counterparty's store observes
\* nothing, warns once and does not fail: the loop goes on.
C4_MissingEntryWarns ==
    [][\A h \in Handlers :
          (/\ Took(h) /\ Linked(h)
           /\ Taken(h).kind \in ConfirmKinds
           /\ Taken(h).height >= W0[h]
           /\ store[Other(h)][StoreOf(Taken(h).kind)][PacketIdFrom(Taken(h).packet)] = NoTime)
          => /\ hist' = hist
             /\ warnings'[h] = warnings[h] + 1
             /\ pc'[h] = "events" /\ result'[h] = "running"]_vars

\* A linked handler has returned Ok from a batch that held a confirmation with
\* no entry.
C4_Witness ==
    \E h \in Handlers : \E i \in 1..Len(batch[h]) :
        /\ Linked(h) /\ result[h] = "ok"
        /\ batch[h][i].kind \in ConfirmKinds /\ batch[h][i].height >= W0[h]
        /\ warnings[h] > 0
        /\ \A n \in LatencyHists : hist[h][n] = <<>>

\* C5 as claimed: on an unlinked handler no batch that holds a confirmation
\* event returns Ok, and the handler observes no latency sample.
C5_EveryBatchAborts ==
    \A h \in Handlers :
        Unlinked(h) =>
           /\ \A n \in LatencyHists : hist[h][n] = <<>>
           /\ (\E i \in 1..Len(batch[h]) : batch[h][i].kind \in ConfirmKinds)
              => result[h] # "ok"

\* C5 amended: on an unlinked handler every batch that holds a confirmation
\* event whose height is not below the watermark W0 read at the start of the
\* batch panics at that event, and the handler observes no latency sample.
C5_GatedBatchAborts ==
    \A h \in Handlers :
        Unlinked(h) =>
           /\ \A n \in LatencyHists : hist[h][n] = <<>>
           /\ \A i \in 1..Len(batch[h]) :
                 (batch[h][i].kind \in ConfirmKinds /\ batch[h][i].height >= W0[h])
                 => (result[h] = "panic" /\ pc[h] = "idle" /\ i = Len(batch[h]))

\* An unlinked handler has panicked at a confirmation event.
C5_Witness ==
    \E h \in Handlers :
        /\ Unlinked(h) /\ result[h] = "panic" /\ batch[h] # <<>>
        /\ batch[h][Len(batch[h])].kind \in ConfirmKinds

\* C6: once linked, each handler's three counterparty references are the
\* counterparty's own three stores, kind by kind, so what a lookup through the
\* reference finds is what the counterparty's store holds; and the two handlers
\* are linked together.
C6_LinkSharesStores ==
    \A h \in Handlers :
        (\E k \in StoreKinds : cp[h][k] # NoRef) =>
           /\ Linked(h) /\ Linked(Other(h))
           /\ \A k \in StoreKinds :
                 /\ cp[h][k] = [owner |-> Other(h), kind |-> k]
                 /\ \A id \in PacketIds : Get(cp[h][k], id) = store[Other(h)][k][id]

\* After the link, A's send is seen through B's reference and B's
\* acknowledgement through A's.
C6_Witness ==
    /\ Linked("A") /\ Linked("B")
    /\ \E id \in PacketIds :
          /\ store["A"]["packet"][id] # NoTime
          /\ Get(cp["B"]["packet"], id) = store["A"]["packet"][id]
    /\ \E id \in PacketIds :
          /\ store["B"]["ack"][id] # NoTime
          /\ Get(cp["A"]["ack"], id) = store["B"]["ack"][id]

\* C7: the two undelivered gauges are never negative, whatever the local and the
\* counterparty counters are and however the counterparty's increments fall
\* between the estimator's reads.
C7_GaugesNeverNegative ==
    \A h \in Handlers : \A g \in GaugeNames : gauge[h][g] >= 0

\* The estimator has set the acknowledgements gauge to zero from a counterparty
\* count above the local one, while the counterparty is inside a batch.
C7_Witness ==
    \E h \in Handlers :
        /\ Linked(h) /\ sent[h] # <<>> /\ pc[h] = "messages"
        /\ sent[h][Len(sent[h])].type_url = MsgAcknowledgement
        /\ remote[h]["undelivered_acknowledgements"] > local[h]
        /\ gauge[h]["undelivered_acknowledgements"] = 0
        /\ pc[Other(h)] = "events" /\ batch[Other(h)] # <<>>

\* C8 as claimed: a handler has observed at most as many sent_packet_time samples
\* as its counterparty has recorded sends.
C8_AtMostOneSamplePerSend ==
    \A h \in Handlers :
        Len(hist[h]["sent_packet_time"]) <= counter[Other(h)]["received_send"]

\* C9 as claimed: while the slice of a completed call is handed in again, no
\* event of it has an effect.
C9_ReplayHasNoEffect ==
    [][\A h \in Handlers :
          (Took(h) /\ replay[h] # <<>>)
          => UNCHANGED <<counter, store, lastUpdate, hist, warnings>>]_vars

\* The two parts of the amended C9.
C9_HeightsCovered ==
    \A h \in Handlers :
        result[h] = "ok" =>
           \A i \in 1..Len(batch[h]) :
              HasHeight(batch[h][i].kind) => batch[h][i].height <= watermark[h]

C9_ReplayStep ==
    \A h \in Handlers :
        (/\ Took(h) /\ replay[h] # <<>>
         /\ HasHeight(Taken(h).kind) /\ Taken(h).height < W0[h])
        => /\ UNCHANGED <<counter, store, lastUpdate, hist, warnings, watermark, newH>>
           /\ pc'[h] = "events"

\* C9 amended: when a call has returned Ok the watermark is at least the height
\* of every event of its slice, and while that slice is handed in again every
\* event whose height is strictly below the watermark has no effect.
C9_ReplayBelowWatermarkHasNoEffect == []C9_HeightsCovered /\ [][C9_ReplayStep]_vars

\* A replayed call has returned Ok after skipping a SendPacket event of the slice
\* that the first call had counted.
C9_Witness ==
    \E h \in Handlers : \E i \in 1..Len(batch[h]) :
        /\ replay[h] # <<>> /\ batch[h] = replay[h] /\ result[h] = "ok"
        /\ batch[h][i].kind = "SendPacket" /\ batch[h][i].height < W0[h]
        /\ counter[h]["received_send"] = 1

\* The three parts of C10: the increment, the set, and the gauge afterwards.
C10_Increment ==
    \A h \in Handlers :
        (pc[h] = "messages" /\ pc'[h] = "ack_set")
        => /\ counter'[h]["sent_acknowledgments"] = counter[h]["sent_acknowledgments"] + 1
           /\ local'[h] = counter[h]["sent_acknowledgments"] + 1
           /\ gauge' = gauge

C10_Set ==
    \A h \in Handlers :
        (pc[h] = "ack_set" /\ pc'[h] = "messages")
        => LET d == counter[h]["sent_acknowledgments"]
                    - counter[Other(h)]["received_acknowledge"]
           IN  /\ gauge'[h]["undelivered_acknowledgements"] = IF d > 0 THEN d ELSE 0
               /\ counter' = counter

C10_AfterBatch ==
    \A h \in Handlers :
        (/\ \E i \in 1..Len(sent[h]) : sent[h][i].type_url = MsgAcknowledgement
         /\ pc[h] # "ack_set" /\ result[h] \in {"running", "ok"}
         /\ remote[h]["undelivered_acknowledgements"]
               = counter[Other(h)]["received_acknowledge"])
        => LET d == counter[h]["sent_acknowledgments"]
                    - counter[Other(h)]["received_acknowledge"]
           IN  gauge[h]["undelivered_acknowledgements"] = IF d > 0 THEN d ELSE 0

\* C10: an acknowledgement message adds one to the local acks-sent counter and
\* reads it after the increment; the gauge is then set to that count less the
\* counterparty's count, clamped at zero; and after the message, as long as the
\* counterparty's count is the one that was read, the gauge is
\* max(0, acks sent - counterparty's acks received).
C10_AckGaugeUsesPostIncrement ==
    []C10_AfterBatch /\ [][C10_Increment /\ C10_Set]_vars

\* A batch of two acknowledgement messages has returned Ok with the counterparty
\* at one acknowledgement received: the gauge is one.
C10_Witness ==
    \E h \in Handlers :
        /\ result[h] = "ok" /\ Len(sent[h]) = 2
        /\ \A i \in 1..2 : sent[h][i].type_url = MsgAcknowledgement
        /\ counter[h]["sent_acknowledgments"] = 2
        /\ counter[Other(h)]["received_acknowledge"] = 1
        /\ gauge[h]["undelivered_acknowledgements"] = 1

\* The three parts of C11: the read, the set with the increment, and the gauge
\* afterwards.
C11_Read ==
    \A h \in Handlers :
        (pc[h] = "messages" /\ pc'[h] = "recv_set")
        => /\ local'[h] = counter[h]["sent_packets"]
           /\ counter' = counter /\ gauge' = gauge

C11_Set ==
    \A h \in Handlers :
        (pc[h] = "recv_set" /\ pc'[h] = "messages")
        => LET d == counter[h]["sent_packets"] - counter[Other(h)]["received_receive"]
           IN  /\ gauge'[h]["undelivered_packets"] = IF d > 0 THEN d ELSE 0
               /\ counter'[h]["sent_packets"] = counter[h]["sent_packets"] + 1
               /\ \A c \in CounterNames \ {"sent_packets"} : counter'[h][c] = counter[h][c]

C11_AfterBatch ==
    \A h \in Handlers :
        (/\ \E i \in 1..Len(sent[h]) : sent[h][i].type_url = MsgRecvPacket
         /\ pc[h] \in {"messages", "idle"} /\ result[h] \in {"running", "ok"}
         /\ remote[h]["undelivered_packets"] = counter[Other(h)]["received_receive"])
        => LET d == (counter[h]["sent_packets"] - 1)
                    - counter[Other(h)]["received_receive"]
           IN  gauge[h]["undelivered_packets"] = IF d > 0 THEN d ELSE 0

\* C11: a receive-packet message reads the local packets-sent counter before the
\* increment, sets the undelivered-packets gauge to that count less the
\* counterparty's packets received, clamped at zero, and only then adds one to
\* packets sent; so after the message, as long as the counterparty's count is the
\* one that was read, the gauge is
\* max(0, (packets sent - 1) - counterparty's packets received).
C11_RecvGaugeUsesPreIncrement ==
    []C11_AfterBatch /\ [][C11_Read /\ C11_Set]_vars

\* A batch of two receive-packet messages has returned Ok with the counterparty at
\* no packet received: packets sent is two and the gauge is one.
C11_Witness ==
    \E h \in Handlers :
        /\ result[h] = "ok" /\ Len(sent[h]) = 2
        /\ \A i \in 1..2 : sent[h][i].type_url = MsgRecvPacket
        /\ counter[h]["sent_packets"] = 2
        /\ counter[Other(h)]["received_receive"] = 0
        /\ gauge[h]["undelivered_packets"] = 1

\* This step is one iteration of handler h's loop over messages.
TookMessage(h) == Len(sent'[h]) = Len(sent[h]) + 1
TakenMessage(h) == sent'[h][Len(sent'[h])]

\* The parts of C12: what a step of handle_timeouts does, what a step of
\* handle_messages does, and the timeouts-sent counter over the batches.
C12_TimeoutsStep ==
    \A h \in Handlers :
        pc[h] = "timeouts"
        => /\ gauge' = gauge
           /\ \A c \in CounterNames \ {"sent_timeout_packets"} : counter'[h][c] = counter[h][c]
           /\ counter'[h]["sent_timeout_packets"] =
                 counter[h]["sent_timeout_packets"]
                 + (IF TookMessage(h)
                       /\ TakenMessage(h).type_url \in {MsgTimeout, MsgTimeoutOnClose}
                    THEN 1 ELSE 0)

C12_MessagesStep ==
    \A h \in Handlers :
        pc[h] \in {"messages", "ack_set", "recv_set"}
        => /\ counter'[h]["sent_timeout_packets"] = counter[h]["sent_timeout_packets"]
           /\ (TookMessage(h)
               /\ TakenMessage(h).type_url \notin {MsgAcknowledgement, MsgRecvPacket})
              => (counter' = counter /\ gauge' = gauge /\ pc'[h] = "messages")

C12_Counted ==
    \A h \in Handlers : counter[h]["sent_timeout_packets"] = tally[h]["sent_timeout_packets"]

\* C12: handle_timeouts adds to the timeouts-sent counter one for every timeout
\* and timeout-on-close message of its batch and leaves every other counter and
\* both gauges alone; handle_messages leaves the timeouts-sent counter alone; and
\* a message whose tag the entry point does not match changes no counter and no
\* gauge.
C12_DispatchIsDisjoint ==
    []C12_Counted /\ [][C12_TimeoutsStep /\ C12_MessagesStep]_vars

\* handle_timeouts has returned from a batch of a timeout-on-close message and a
\* receive-packet message: one timeout sent, no packet sent.
C12_Witness ==
    \E h \in Handlers :
        /\ result[h] = "ok" /\ Len(sent[h]) = 2
        /\ sent[h][1].type_url = MsgTimeoutOnClose
        /\ sent[h][2].type_url = MsgRecvPacket
        /\ counter[h]["sent_timeout_packets"] = 1
        /\ counter[h]["sent_packets"] = 0

\* The bytes of the first n messages of a slice.
RECURSIVE TotalLen(_, _)
TotalLen(messages, n) == IF n = 0 THEN 0 ELSE messages[n].len + TotalLen(messages, n - 1)

CostHists == {"gas_cost_for_sent_tx_bundle", "transaction_length_for_sent_tx_bundle"}

\* The parts of C13: a call's two samples and its frame, the two histograms side
\* by side, and the batch of lengths 10, 20 and 30.
C13_Step ==
    \A h \in Handlers :
        (\E n \in CostHists : hist'[h][n] # hist[h][n])
        => /\ hist'[h]["gas_cost_for_sent_tx_bundle"] =
                 Append(hist[h]["gas_cost_for_sent_tx_bundle"], weight'[h])
           /\ hist'[h]["transaction_length_for_sent_tx_bundle"] =
                 Append(hist[h]["transaction_length_for_sent_tx_bundle"],
                        TotalLen(sent'[h], Len(sent'[h])))
           /\ \A n \in HistNames \ CostHists : hist'[h][n] = hist[h][n]
           /\ UNCHANGED <<counter, gauge, store, lastUpdate, watermark, warnings>>

C13_Paired ==
    \A h \in Handlers :
        Len(hist[h]["gas_cost_for_sent_tx_bundle"])
           = Len(hist[h]["transaction_length_for_sent_tx_bundle"])

C13_Scenario ==
    /\ BatchSize(<<[type_url |-> MsgRecvPacket, len |-> 10],
                   [type_url |-> MsgAcknowledgement, len |-> 20],
                   [type_url |-> MsgUpdateClient, len |-> 30]>>) = 60
    /\ BatchSize(<<>>) = 0

\* C13: handle_transaction_costs observes one sample, the batch weight, into the
\* gas histogram and one sample, the sum of the lengths of the values of all the
\* messages of the batch whatever their tags (zero for an empty batch), into the
\* transaction-length histogram, and changes no counter, gauge or store.
C13_OneWeightAndOneSizeSample ==
    [](C13_Paired /\ C13_Scenario) /\ [][C13_Step]_vars

\* A batch of a one-byte and a two-byte message of different tags with weight
\* two: the samples are two and three.
C13_Witness ==
    \E h \in Handlers :
        /\ Len(sent[h]) = 2
        /\ sent[h][1].len = 1 /\ sent[h][2].len = 2
        /\ sent[h][1].type_url # sent[h][2].type_url
        /\ weight[h] = 2
        /\ hist[h]["gas_cost_for_sent_tx_bundle"] = <<2>>
        /\ hist[h]["transaction_length_for_sent_tx_bundle"] = <<3>>

\* Handler x's three counterparty references are handler y's own stores.
PointsAt(x, y) == \A k \in StoreKinds : cp[x][k] = [owner |-> y, kind |-> k]

\* C14 as claimed: whenever x's counterparty references are y's own stores, y's
\* are x's own stores, after any calls of link_with_counterparty that link each
\* pair of handlers at most once.
C14_LinkageIsSymmetric ==
    \A x, y \in Instances : PointsAt(x, y) => PointsAt(y, x)

\* C15: on a linked handler a confirmation event that passes the height gate
\* observes a sample exactly when the counterparty's store of the event's own
\* category (sent-packet for packet received, sent-ack for ack confirmed,
\* sent-timeout for a timeout) holds the packet identity, and the sample is the
\* time since that entry; an entry in any other store, of another category or of
\* the handler itself, yields no sample.
C15_CorrelationIsCategoryIsolated ==
    [][\A h \in Handlers :
          (/\ Took(h) /\ Linked(h)
           /\ Taken(h).kind \in ConfirmKinds
           /\ Taken(h).height >= W0[h])
          => LET last_time == store[Other(h)][StoreOf(Taken(h).kind)]
                                   [PacketIdFrom(Taken(h).packet)]
             IN  IF last_time = NoTime
                 THEN hist' = hist /\ warnings'[h] = warnings[h] + 1
                 ELSE /\ hist'[h][HistOf(Taken(h).kind)] =
                            Append(hist[h][HistOf(Taken(h).kind)],
                                   (now - last_time) \div TicksPerMilli)
                      /\ \A n \in HistNames \ {HistOf(Taken(h).kind)} :
                            hist'[h][n] = hist[h][n]
                      /\ hist'[Other(h)] = hist[Other(h)]
                      /\ warnings' = warnings]_vars

\* B, linked, has processed a ReceivePacket for a packet identity that its own
\* sent-packet store and A's sent-ack store hold, but A's sent-packet store does
\* not: no sample, one warning.
C15_Witness ==
    \E id \in PacketIds :
        /\ Linked("B") /\ Len(batch["B"]) = 2
        /\ batch["B"][2].kind = "ReceivePacket"
        /\ PacketIdFrom(batch["B"][2].packet) = id
        /\ store["B"]["packet"][id] # NoTime
        /\ store["A"]["ack"][id] # NoTime
        /\ store["A"]["packet"][id] = NoTime
        /\ \A n \in HistNames : hist["B"][n] = <<>>
        /\ warnings["B"] = 1

MaxOf(S) == CHOOSE x \in S : \A y \in S : y <= x

\* The heights of the events of h's batch that the gate let through.
PassedHeights(h) ==
    {batch[h][i].height : i \in {j \in 1..Len(batch[h]) :
        HasHeight(batch[h][j].kind) /\ batch[h][j].height >= W0[h]}}

\* The parts of C16: the gate of every iteration, the one update, and the
\* watermark a successful call leaves.
C16_Gate ==
    \A h \in Handlers :
        Took(h)
        => /\ W0'[h] = W0[h] /\ watermark' = watermark
           /\ (HasHeight(Taken(h).kind) /\ Taken(h).height >= W0[h])
              => /\ newH'[h] = MaxOf({newH[h], Taken(h).height})
                 /\ Taken(h).kind \in CountedKinds
                    => counter'[h][CounterOf(Taken(h).kind)]
                          = counter[h][CounterOf(Taken(h).kind)] + 1

C16_OneUpdate ==
    \A h \in Handlers :
        watermark'[h] # watermark[h]
        => (pc[h] = "events" /\ pc'[h] = "idle" /\ result'[h] = "ok")

C16_Maximum ==
    \A h \in Handlers :
        (pc[h] = "idle" /\ result[h] = "ok")
        => watermark[h] = MaxOf({W0[h]} \cup PassedHeights(h))

\* C16: every event of a batch is gated against the watermark W0 read before the
\* batch, so an event whose height is at least W0 is processed even after an
\* event of a greater height; the watermark is written once, when the call
\* returns Ok, and is then the maximum of W0 and the heights of the events that
\* were not skipped.
C16_WatermarkAdvancesOnceToMaximum ==
    []C16_Maximum /\ [][C16_Gate /\ C16_OneUpdate]_vars

\* A batch of a SendPacket at height 2 followed by one at height 1 has returned
\* Ok from a watermark below 2: both are counted and the watermark is 2.
C16_Witness ==
    \E h \in Handlers :
        /\ pc[h] = "idle" /\ result[h] = "ok" /\ Len(batch[h]) = 2 /\ replay[h] = <<>>
        /\ batch[h][1].kind = "SendPacket" /\ batch[h][1].height = 2
        /\ batch[h][2].kind = "SendPacket" /\ batch[h][2].height = 1
        /\ W0[h] <= 1
        /\ counter[h]["received_send"] = 2
        /\ watermark[h] = 2

ReceivedCounters == {"received_send", "received_receive", "received_acknowledge",
                     "received_timeouts"}

\* The two parts of C17: one iteration, and the counters over all the batches.
C17_Step ==
    \A h \in Handlers :
        Took(h)
        => LET counted == /\ Taken(h).kind \in CountedKinds
                          /\ Taken(h).height >= W0[h]
           IN  \A c \in ReceivedCounters :
                  counter'[h][c] =
                     counter[h][c]
                     + (IF counted /\ c = CounterOf(Taken(h).kind) THEN 1 ELSE 0)

C17_Counted ==
    \A h \in Handlers : \A c \in ReceivedCounters : counter[h][c] = tally[h][c]

\* C17: a SendPacket, ReceivePacket, AcknowledgePacket or timeout (either
\* variant) event that passes the height gate adds exactly one to the
\* received-send, received-receive, received-acknowledge or received-timeouts
\* counter, whether or not the lookup finds an entry, and nothing else adds to
\* them; so each counter is the number of events of its category that were not
\* skipped.
C17_ReceivedCountersCountPassedEvents ==
    []C17_Counted /\ [][C17_Step]_vars

\* A linked handler has returned Ok from a batch of a ReceivePacket and a timeout
\* that found no entry: two warnings, no sample, and one count each.
C17_Witness ==
    \E h \in Handlers :
        /\ Linked(h) /\ result[h] = "ok" /\ Len(batch[h]) = 2
        /\ batch[h][1].kind = "ReceivePacket"
        /\ batch[h][2].kind \in {"TimeoutPacket", "TimeoutOnClosePacket"}
        /\ warnings[h] = 2
        /\ \A n \in HistNames : hist[h][n] = <<>>
        /\ counter[h]["received_receive"] = 1
        /\ counter[h]["received_timeouts"] = 1

\* The parts of C18: the locks held, what is done under a lock, and the end of
\* every call.
C18_OneLock ==
    /\ \A h \in Handlers :
          /\ Cardinality(held[h]) <= 1
          /\ held[h] # {} <=> pc[h] = "locked"
    /\ \A g, h \in Handlers : g # h => held[g] \cap held[h] = {}

C18_Section ==
    /\ \A o \in Handlers : \A k \in StoreKinds :
          store'[o][k] # store[o][k]
          => /\ \E h \in Handlers : held[h] = {[owner |-> o, kind |-> k]} /\ held'[h] = {}
             /\ Cardinality({id \in PacketIds : store'[o][k][id] # store[o][k][id]}) = 1
             /\ hist' = hist /\ warnings' = warnings
    /\ \A h \in Handlers :
          (hist'[h] # hist[h] \/ warnings'[h] # warnings[h])
          => (Cardinality(held[h]) = 1 /\ held'[h] = {} /\ store' = store)

C18_Returns ==
    \A h \in Handlers :
        (pc[h] # "idle" /\ Linked(h)) ~> (pc[h] = "idle" /\ result[h] \in {"ok", "err"})

\* C18: a handler holds at most one store lock, and only while it does the one
\* map read or write of the arm it is in; so, the two handlers linked and their
\* loops running side by side, no call of handle_events waits for ever: every
\* call that has started returns.
C18_NoDeadlock ==
    []C18_OneLock /\ [][C18_Section]_vars /\ C18_Returns

\* B waits for the lock of A's sent-packet store while A holds it.
C18_Witness ==
    /\ Linked("A") /\ Linked("B")
    /\ pc["B"] = "lock" /\ pc["A"] = "locked"
    /\ LockWanted("B") = [owner |-> "A", kind |-> "packet"]
    /\ held["A"] = {[owner |-> "A", kind |-> "packet"]}

\* The two parts of C19: the sent-timeout stores, and a timeout event.
C19_Empty ==
    \A h \in Handlers :
        /\ \A id \in PacketIds : store[h]["timeout"][id] = NoTime
        /\ hist[h]["sent_timeout_packet_time"] = <<>>

C19_Step ==
    \A h \in Handlers :
        (/\ Took(h) /\ Linked(h)
         /\ Taken(h).kind \in {"TimeoutPacket", "TimeoutOnClosePacket"}
         /\ Taken(h).height >= W0[h])
        => /\ warnings'[h] = warnings[h] + 1
           /\ hist' = hist
           /\ pc'[h] = "events"

\* C19: nothing writes into a sent-timeout store, handle_timeouts included, so
\* both handlers' sent-timeout stores stay empty, the sent_timeout_packet_time
\* histogram never gets a sample, and a timeout or timeout-on-close event that
\* passes the height gate on a linked handler warns that it found no entry.
C19_TimeoutLatencyNeverObserved ==
    []C19_Empty /\ [][C19_Step]_vars

\* A has sent a timeout message and B, linked, has then processed the timeout
\* event: one warning, no sample.
C19_Witness ==
    /\ Linked("B")
    /\ counter["A"]["sent_timeout_packets"] >= 1
    /\ batch["B"] # <<>>
    /\ batch["B"][Len(batch["B"])].kind = "TimeoutPacket"
    /\ counter["B"]["received_timeouts"] = 1
    /\ warnings["B"] = 1
    /\ hist["B"]["sent_timeout_packet_time"] = <<>>

\* s is t, or t with samples appended.
IsPrefix(s, t) == Len(s) <= Len(t) /\ SubSeq(t, 1, Len(s)) = s

\* The two parts of C20: the watermark after an abort, and the aborting step.
C20_WatermarkKept ==
    \A h \in Handlers :
        result[h] \in {"panic", "err"} => (pc[h] = "idle" /\ watermark[h] = W0[h])

C20_AbortStep ==
    \A h \in Handlers :
        (Took(h) /\ pc'[h] = "idle")
        => /\ watermark' = watermark /\ store' = store /\ warnings' = warnings
           /\ \A n \in HistNames : IsPrefix(hist[h][n], hist'[h][n])
           /\ \/ /\ Taken(h).kind \in ConfirmKinds /\ Unlinked(h)
                 /\ result'[h] = "panic"
                 /\ \A c \in CounterNames :
                       counter'[h][c] =
                          counter[h][c] + (IF c = CounterOf(Taken(h).kind) THEN 1 ELSE 0)
                 /\ lastUpdate' = lastUpdate /\ hist' = hist
              \/ /\ Taken(h).kind = "UpdateClient"
                 /\ result'[h] = "err"
                 /\ lastUpdate'[h] = now
                 /\ counter' = counter

\* C20: when a call of handle_events aborts at an event, a confirmation event on
\* an unlinked handler or a client update whose height bookkeeping fails, the
\* watermark stays at the value W0 read before the batch and nothing the earlier
\* events did is undone; the aborting confirmation event is still counted, and
\* the aborting client update has still written the last-update instant.
C20_AbortKeepsWatermarkAndEffects ==
    []C20_WatermarkKept /\ [][C20_AbortStep]_vars

\* An unlinked handler has counted and recorded a SendPacket at height 2 and then
\* panicked at a ReceivePacket, which it counted: the watermark is still below 2.
C20_Witness ==
    \E h \in Handlers :
        /\ Unlinked(h) /\ result[h] = "panic" /\ Len(batch[h]) = 2
        /\ batch[h][1].kind = "SendPacket" /\ batch[h][1].height = 2
        /\ batch[h][2].kind = "ReceivePacket"
        /\ store[h]["packet"][PacketIdFrom(batch[h][1].packet)] # NoTime
        /\ counter[h]["received_send"] = 1
        /\ counter[h]["received_receive"] = 1
        /\ watermark[h] = W0[h] /\ W0[h] < 2

====
